---- MODULE Spec2Model ----
(***************************************************************************)
(* A model of sgnlp/models/senticnet_gcn/utils.py: the embedding-matrix    *)
(* builder, the ABSA dataset reader and the BucketIterator.                *)
(*                                                                         *)
(* Python values are modelled as follows.                                  *)
(*   - a list or a 1-D tensor is a TLA+ sequence (1-based);                *)
(*   - a 2-D array is a sequence of rows;                                  *)
(*   - a dict / BatchEncoding is a function whose domain is its key set,   *)
(*     so that len(mapping) is Cardinality(DOMAIN mapping);                *)
(*   - a word is a natural number, a text is a sequence of words;          *)
(*   - the examples of a dataset are objects shared by reference between   *)
(*     the dataset, the sorted list and the batches: the model keeps them  *)
(*     in `data` and the lists hold 1-based positions into `data`.         *)
(***************************************************************************)
EXTENDS Integers, Sequences, FiniteSets, TLC

VARIABLES
    data,       \* ABSADataset.data: the list of examples the iterator is given
    data0,      \* history: `data` as it was before the iterator was built
    bi,         \* the BucketIterator object (its fields, and how __init__ ended)
    gens,       \* the generators made by __iter__, one per traversal slot
    emb,        \* build_embedding_matrix: its inputs and its result
    rd          \* ABSADatasetReader.__read_data__: its inputs and its result

vars == <<data, data0, bi, gens, emb, rd>>

----------------------------------------------------------------------------
(* Bounds of the model.                                                    *)

MaxData == 3        \* examples in a dataset handed to BucketIterator
MaxLeft == 1        \* words left of the aspect
MaxAspect == 2      \* words of the aspect (at least 1)
MaxRaw == 2         \* side of a dependency matrix (the raw sentence length)
MaxBatchSize == 3   \* batch_size ranges over 1..MaxBatchSize
MaxIterData == 2    \* examples in a dataset whose iterator is traversed
MaxLines == 2       \* lines of a word-vector file
MaxDim == 2         \* embed_dim ranges over 1..MaxDim
MaxRecords == 2     \* three-line records in a raw dataset file

----------------------------------------------------------------------------
(* Helpers for Python's list operations.                                   *)

\* [v] * n; a non-positive n gives the empty list
Rep(v, n) == [i \in 1..n |-> v]

\* max(list) over a non-empty set of integers
MaxOf(S) == CHOOSE m \in S : \A x \in S : x <= m

\* math.ceil(n / b) for n >= 0, b >= 1
CeilDiv(n, b) == (n + b - 1) \div b

\* lst[lo:hi] with 0-based Python bounds, 0 <= lo, clipped at len(lst)
Slice(lst, lo, hi) ==
    SubSeq(lst, lo + 1, IF hi < Len(lst) THEN hi ELSE Len(lst))

\* the set of all sequences over S of length 0..n
RECURSIVE SeqsUpTo(_, _)
SeqsUpTo(S, n) ==
    IF n = 0 THEN {<<>>}
    ELSE LET shorter == SeqsUpTo(S, n - 1)
         IN shorter \cup {Append(s, x) : s \in {t \in shorter : Len(t) = n - 1}, x \in S}

\* the permutations of a sequence (every outcome of random.shuffle)
Perms(s) ==
    {[i \in 1..Len(s) |-> s[p[i]]] :
        p \in {q \in [1..Len(s) -> 1..Len(s)] : \A i, j \in 1..Len(s) : q[i] = q[j] => i = j}}

----------------------------------------------------------------------------
(* The tokenizer collaborator and the examples.                            *)

FIELDS == {"text_indices", "context_indices", "aspect_indices", "left_indices"}

\* the id of a word in the tokenizer's vocabulary
TokenId(word) ==
    CASE word = "the" -> 101 [] word = "great" -> 102 [] word = "fresh" -> 103
      [] word = "pizza" -> 104 [] word = "crust" -> 105 [] word = "base" -> 106
      [] word = "sauce" -> 107 [] word = "food" -> 108

\* tokenizer(text): one id per word, attention 1 and segment 0 on every token
tokenizer(text) ==
    [input_ids |-> [i \in 1..Len(text) |-> TokenId(text[i])],
     token_type_ids |-> Rep(0, Len(text)),
     attention_mask |-> Rep(1, Len(text))]

\* the record built for one example (lines 268-284)
MakeExample(text_left, aspect, text_right, polarity, dependency_graph, dependency_tree) ==
    [text_indices |-> tokenizer(text_left \o aspect \o text_right),
     context_indices |-> tokenizer(text_left \o text_right),
     aspect_indices |-> tokenizer(aspect),
     left_indices |-> tokenizer(text_left),
     polarity |-> polarity,
     dependency_graph |-> dependency_graph,
     dependency_tree |-> dependency_tree]

\* a square adjacency matrix of side n with no zero entry
Graph(n) == [i \in 1..n |-> [j \in 1..n |-> 1]]
Tree(n) == [i \in 1..n |-> [j \in 1..n |-> IF i = j THEN 2 ELSE 3]]

\* the words used for the left context, the aspect and the right context
LeftWords(n) == SubSeq(<<"the", "great", "fresh">>, 1, n)
AspectWords(n) == SubSeq(<<"pizza", "crust", "base", "sauce">>, 1, n)

\* the examples a dataset is drawn from
Examples(maxLeft, maxAspect, maxRaw) ==
    {MakeExample(LeftWords(l), AspectWords(a), <<>>, p, Graph(r), Tree(r)) :
        l \in 0..maxLeft, a \in 1..maxAspect, p \in {0, 2}, r \in 1..maxRaw}

----------------------------------------------------------------------------
(* BucketIterator: construction.                                           *)

\* sorted(data, key=lambda x: len(x[sort_key])): the key is len() of the
\* BatchEncoding mapping, which is its number of keys; sorted() is stable.
SortKeyOf(x, sort_key) == Cardinality(DOMAIN x[sort_key])

InsertSorted(s, x, d, sort_key) ==
    LET pos == Cardinality({j \in 1..Len(s) :
                    SortKeyOf(d[s[j]], sort_key) <= SortKeyOf(d[x], sort_key)})
    IN SubSeq(s, 1, pos) \o <<x>> \o SubSeq(s, pos + 1, Len(s))

RECURSIVE SortedPositions(_, _, _)
SortedPositions(d, n, sort_key) ==
    IF n = 0 THEN <<>>
    ELSE InsertSorted(SortedPositions(d, n - 1, sort_key), n, d, sort_key)

\* line 136: the list that is cut into chunks, as positions into data
sorted_data(d, sort_key, sort) ==
    IF sort THEN SortedPositions(d, Len(d), sort_key) ELSE [i \in 1..Len(d) |-> i]

\* pad_batch_encoding mutates the encoding it is given and returns it
pad_batch_encoding(enc, max_len) ==
    LET input_ids_pad == Rep(0, max_len - Len(enc.input_ids))
        token_type_ids_pad == input_ids_pad
        attention_mask_pad == Rep(1, max_len - Len(enc.attention_mask))
    IN ("attention_mask_pad" :> (enc.attention_mask \o attention_mask_pad))
       @@ [enc EXCEPT !.input_ids = enc.input_ids \o input_ids_pad,
                      !.token_type_ids = enc.token_type_ids \o token_type_ids_pad]

\* np.pad(m, ((0, p), (0, p)), "constant") for p >= 0
np_pad(m, p) ==
    LET n == Len(m)
    IN [i \in 1..(n + p) |-> [j \in 1..(n + p) |->
            IF i <= n /\ j <= n THEN m[i][j] ELSE 0]]

\* One pass of the loop body of pad_data (lines 169-210) on the example at
\* position item: the four encodings are padded in place, then the matrices
\* are padded by max_len minus the length of the (already padded) text ids;
\* np.pad raises ValueError on a negative width.  acc is the batch so far.
pad_item(d, item, max_len, acc) ==
    LET ex == d[item]
        text_indices == pad_batch_encoding(ex.text_indices, max_len)
        context_indices == pad_batch_encoding(ex.context_indices, max_len)
        aspect_indices == pad_batch_encoding(ex.aspect_indices, max_len)
        left_indices == pad_batch_encoding(ex.left_indices, max_len)
        d2 == [d EXCEPT ![item] = [ex EXCEPT !.text_indices = text_indices,
                                             !.context_indices = context_indices,
                                             !.aspect_indices = aspect_indices,
                                             !.left_indices = left_indices]]
        width == max_len - Len(text_indices.input_ids)
    IN IF width < 0
       THEN [status |-> "ValueError", data |-> d2, batch |-> acc]
       ELSE [status |-> "ok", data |-> d2,
             batch |-> [text_indices |-> Append(acc.text_indices, text_indices),
                        context_indices |-> Append(acc.context_indices, context_indices),
                        aspect_indices |-> Append(acc.aspect_indices, aspect_indices),
                        left_indices |-> Append(acc.left_indices, left_indices),
                        polarity |-> Append(acc.polarity, ex.polarity),
                        dependency_graph |->
                            Append(acc.dependency_graph, np_pad(ex.dependency_graph, width)),
                        dependency_tree |->
                            Append(acc.dependency_tree, np_pad(ex.dependency_tree, width))]]

EmptyBatch ==
    [text_indices |-> <<>>, context_indices |-> <<>>, aspect_indices |-> <<>>,
     left_indices |-> <<>>, polarity |-> <<>>,
     dependency_graph |-> <<>>, dependency_tree |-> <<>>]

\* line 166
max_len_of(d, batch_data, sort_key) ==
    MaxOf({Len(d[batch_data[k]][sort_key].input_ids) : k \in 1..Len(batch_data)})

\* pad_data(batch_data), batch_data a non-empty list of positions into d.
\* The return statement (line 202) is inside the for loop, so the function
\* returns at the end of the first pass.
pad_data(d, batch_data, sort_key) ==
    pad_item(d, batch_data[1], max_len_of(d, batch_data, sort_key), EmptyBatch)

\* the list comprehension of line 137, from chunk i on; it stops at the first
\* exception.  Each batch also records, as `chunk`, the index i it was built at.
RECURSIVE pad_chunks(_, _, _, _, _, _, _)
pad_chunks(d, sorted, batch_size, sort_key, num_batch, i, batches) ==
    IF i = num_batch THEN [status |-> "ok", data |-> d, batches |-> batches]
    ELSE LET r == pad_data(d, Slice(sorted, i * batch_size, (i + 1) * batch_size), sort_key)
         IN IF r.status # "ok"
            THEN [status |-> r.status, data |-> r.data, batches |-> <<>>]
            ELSE pad_chunks(r.data, sorted, batch_size, sort_key, num_batch, i + 1,
                            Append(batches, ("chunk" :> i) @@ r.batch))

sort_and_pad(d, batch_size, sort_key, sort) ==
    pad_chunks(d, sorted_data(d, sort_key, sort), batch_size, sort_key,
               CeilDiv(Len(d), batch_size), 0, <<>>)

NoIterator ==
    [status |-> "new", shuffle |-> FALSE, sort |-> FALSE, sort_key |-> "text_indices",
     batch_size |-> 1, sorted |-> <<>>, batches |-> <<>>, batches0 |-> <<>>, batch_len |-> 0]

\* BucketIterator(data, batch_size, sort_key, shuffle, sort): lines 117-122.
\* batch_size, sorted and batches0 (the batches in construction order) are
\* history fields.
Construct(batch_size, sort_key, shuffle, sort) ==
    /\ bi.status = "new"
    /\ LET r == sort_and_pad(data, batch_size, sort_key, sort)
       IN /\ data' = r.data
          /\ bi' = [status |-> r.status, shuffle |-> shuffle, sort |-> sort,
                    sort_key |-> sort_key, batch_size |-> batch_size,
                    sorted |-> sorted_data(data, sort_key, sort),
                    batches |-> r.batches, batches0 |-> r.batches,
                    batch_len |-> Len(r.batches)]
    /\ UNCHANGED <<data0, gens, emb, rd>>

\* Two generators of one iterator can be alive at a time.
TRAVERSALS == {"first", "second"}

\* a generator: pc is "idle" (not made, or made and never advanced), "yield"
\* (suspended at line 216) or "done" (exhausted); idx is the loop variable.
\* yielded (what it has yielded so far) and interrupted (another traversal
\* began while this one was suspended) are history fields.
NewGen == [pc |-> "idle", idx |-> 0, yielded |-> <<>>, interrupted |-> FALSE]
NoGens == [g \in TRAVERSALS |-> NewGen]
NoEmb == [status |-> "idle"]
NoRd == [status |-> "idle"]

Init ==
    /\ data \in SeqsUpTo(Examples(MaxLeft, MaxAspect, MaxRaw), MaxData)
    /\ data0 = data
    /\ bi = NoIterator
    /\ gens = NoGens
    /\ emb = NoEmb
    /\ rd = NoRd

Build ==
    \E batch_size \in 1..MaxBatchSize, sort_key \in FIELDS, shuffle \in BOOLEAN, sort \in BOOLEAN :
        Construct(batch_size, sort_key, shuffle, sort)

Next == Build

Spec == Init /\ [][Next]_vars

----------------------------------------------------------------------------
(* BucketIterator: traversal.                                              *)

\* loop_at with the loop one step short: range(batch_len - 1)
loop_at_one_short(gen, batches, batch_len, idx) ==
    IF idx < batch_len - 1
    THEN [gen EXCEPT !.pc = "yield", !.idx = idx,
                     !.yielded = Append(gen.yielded, batches[idx + 1])]
    ELSE [gen EXCEPT !.pc = "done"]

\* the for loop of __iter__ (lines 215-216) arriving at index idx: it yields
\* batches[idx] and suspends, or ends when idx reaches batch_len
loop_at(gen, batches, batch_len, idx) ==
    IF idx < batch_len
    THEN [gen EXCEPT !.pc = "yield", !.idx = idx,
                     !.yielded = Append(gen.yielded, batches[idx + 1])]
    ELSE [gen EXCEPT !.pc = "done"]

\* The first next() on a fresh generator of the iterator (a traversal begins):
\* random.shuffle permutes self.batches in place, then the loop starts.
Begin(g) ==
    /\ bi.status = "ok"
    /\ gens[g].pc \in {"idle", "done"}
    /\ \E shuffled \in (IF bi.shuffle THEN Perms(bi.batches) ELSE {bi.batches}) :
        /\ bi' = [bi EXCEPT !.batches = shuffled]
        /\ gens' = [h \in TRAVERSALS |->
                        IF h = g THEN loop_at(NewGen, shuffled, bi.batch_len, 0)
                        ELSE IF gens[h].pc = "yield"
                             THEN [gens[h] EXCEPT !.interrupted = TRUE]
                             ELSE gens[h]]
    /\ UNCHANGED <<data, data0, emb, rd>>

\* A later next() on a suspended generator: the loop goes on to idx + 1 and
\* reads self.batches as it is now.
Resume(g) ==
    /\ gens[g].pc = "yield"
    /\ gens' = [gens EXCEPT ![g] = loop_at(gens[g], bi.batches, bi.batch_len, gens[g].idx + 1)]
    /\ UNCHANGED <<data, data0, bi, emb, rd>>

\* the datasets whose iterators are traversed: example k has k mod 2 words of
\* left context, and any label
IterExample(k, p) ==
    MakeExample(LeftWords(k % 2), AspectWords(1), <<>>, p, Graph(1), Tree(1))

IterDatasets ==
    UNION {{[k \in 1..n |-> IterExample(k, ps[k])] : ps \in [1..n -> {0, 2}]} :
                n \in 0..MaxIterData}

InitIter ==
    /\ data \in IterDatasets
    /\ data0 = data
    /\ bi = NoIterator
    /\ gens = NoGens
    /\ emb = NoEmb
    /\ rd = NoRd

BuildDefault ==
    \E batch_size \in 1..MaxBatchSize, shuffle \in BOOLEAN, sort \in BOOLEAN :
        Construct(batch_size, "text_indices", shuffle, sort)

NextIter ==
    \/ BuildDefault
    \/ \E g \in TRAVERSALS : Begin(g)
    \/ \E g \in TRAVERSALS : Resume(g)

SpecIter == InitIter /\ [][NextIter]_vars

----------------------------------------------------------------------------
(* The embedding matrix builder.                                           *)
(*                                                                         *)
(* A line of the vector file is the list of its whitespace-separated       *)
(* tokens, each a string.  A word is the list of the tokens that " ".join  *)
(* puts together (tokens hold no whitespace, so the list determines the    *)
(* joined string and the other way round).                                 *)

ATOMS == {"a", "b"}
WORDS == {<<"a">>, <<"b">>, <<"a", "b">>}

\* float(token) for the number tokens of the model
ToFloat(token) == CASE token = "0" -> 0 [] token = "1" -> 1 [] token = "2" -> 2

\* the text of a number, as a vector file holds it
NumberToken(x) == CASE x = 0 -> "0" [] x = 1 -> "1" [] x = 2 -> "2"

\* tokens[:-n] and tokens[-n:] for n >= 1
AllButLast(tokens, n) == SubSeq(tokens, 1, Len(tokens) - n)
Last(tokens, n) ==
    SubSeq(tokens, IF Len(tokens) > n THEN Len(tokens) - n + 1 ELSE 1, Len(tokens))

\* line 68
word_of(tokens, embed_dim) == AllButLast(tokens, embed_dim)
vec_of(tokens, embed_dim) ==
    LET t == Last(tokens, embed_dim) IN [i \in 1..Len(t) |-> ToFloat(t[i])]

\* load_word_vec: the loop of lines 66-70 over the first n lines; a later line
\* for a word replaces an earlier one
RECURSIVE load_word_vec(_, _, _, _)
load_word_vec(lines, n, vocab, embed_dim) ==
    IF n = 0 THEN <<>>
    ELSE LET word_vec == load_word_vec(lines, n - 1, vocab, embed_dim)
             word == word_of(lines[n], embed_dim)
         IN IF word \in DOMAIN vocab
            THEN (word :> vec_of(lines[n], embed_dim)) @@ word_vec
            ELSE word_vec

\* build_embedding_matrix with the random row 1 written after the loop over
\* the vocabulary instead of before it
build_embedding_matrix_row1_last(lines, vocab, embed_dim, row1) ==
    LET word_vec == load_word_vec(lines, Len(lines), vocab, embed_dim)
        WordAt(idx) == CHOOSE w \in DOMAIN vocab : vocab[w] = idx
    IN [idx \in 0..(Cardinality(DOMAIN vocab) - 1) |->
            IF idx = 1 THEN row1
            ELSE IF WordAt(idx) \in DOMAIN word_vec THEN word_vec[WordAt(idx)]
            ELSE Rep(0, embed_dim)]

\* lines 94-100: rows are numbered from 0, as in the code.  row1 is the outcome
\* of np.random.uniform for row 1.
build_embedding_matrix(lines, vocab, embed_dim, row1) ==
    LET word_vec == load_word_vec(lines, Len(lines), vocab, embed_dim)
        WordAt(idx) == CHOOSE w \in DOMAIN vocab : vocab[w] = idx
    IN [idx \in 0..(Cardinality(DOMAIN vocab) - 1) |->
            IF WordAt(idx) \in DOMAIN word_vec THEN word_vec[WordAt(idx)]
            ELSE IF idx = 1 THEN row1
            ELSE Rep(0, embed_dim)]

\* the outcomes of np.random.uniform(-1/sqrt(d), 1/sqrt(d), (1, d)), in units
\* of 1/sqrt(d): each component is drawn on its own
UniformRows(embed_dim) == [1..embed_dim -> {-1, 1}]

BuildEmbedding ==
    /\ emb.status = "input"
    /\ \E row1 \in UniformRows(emb.embed_dim) :
        emb' = [emb EXCEPT !.status = "done",
                           !.embedding_matrix =
                               build_embedding_matrix(emb.lines, emb.vocab, emb.embed_dim, row1)]
    /\ UNCHANGED <<data, data0, bi, gens, rd>>

\* the vectors a file gives a word: all zero, or 1, 2, 1, ...
FileVectors(d) == {Rep(0, d), [i \in 1..d |-> 1 + ((i + 1) % 2)]}

\* the line of the file for an entry (word, vector)
LineOf(word, vec) == word \o [i \in 1..Len(vec) |-> NumberToken(vec[i])]

\* the vocabularies: two or three words, numbered from 0 in some order
Vocabularies ==
    {v \in UNION {[W -> 0..(Cardinality(W) - 1)] : W \in SUBSET WORDS} :
        /\ Cardinality(DOMAIN v) >= 2
        /\ \A w1, w2 \in DOMAIN v : v[w1] = v[w2] => w1 = w2}

\* entries is the history of what the file was written from
InitEmb ==
    /\ data = <<>>
    /\ data0 = <<>>
    /\ bi = NoIterator
    /\ gens = NoGens
    /\ rd = NoRd
    /\ \E vocab \in Vocabularies, embed_dim \in 1..MaxDim :
        \E entries \in SeqsUpTo(WORDS \X FileVectors(embed_dim), MaxLines) :
            emb = [status |-> "input", vocab |-> vocab, embed_dim |-> embed_dim,
                   entries |-> entries,
                   lines |-> [k \in 1..Len(entries) |-> LineOf(entries[k][1], entries[k][2])],
                   embedding_matrix |-> <<>>]

NextEmb == BuildEmbedding

SpecEmb == InitEmb /\ [][NextEmb]_vars

\* the file has an entry for word w
InFile(w) == \E k \in 1..Len(emb.entries) : emb.entries[k][1] = w

\* the vector of the file's last entry for w
FileVector(w) ==
    emb.entries[MaxOf({k \in 1..Len(emb.entries) : emb.entries[k][1] = w})][2]

IsZeroRow(row) == \A i \in DOMAIN row : row[i] = 0

HasShape(m, rows, cols) ==
    /\ DOMAIN m = 0..(rows - 1)
    /\ \A r \in DOMAIN m : DOMAIN m[r] = 1..cols

RowsFollowFile ==
    /\ HasShape(emb.embedding_matrix, Cardinality(DOMAIN emb.vocab), emb.embed_dim)
    /\ \A w \in DOMAIN emb.vocab :
        IF InFile(w) THEN emb.embedding_matrix[emb.vocab[w]] = FileVector(w)
        ELSE emb.vocab[w] # 1 => IsZeroRow(emb.embedding_matrix[emb.vocab[w]])

----------------------------------------------------------------------------
(* The dataset reader.                                                     *)
(*                                                                         *)
(* A line of the raw file is the list of its pieces: words (lower case),   *)
(* the marker "$T$", blanks " " and the line end "\n"; a polarity line     *)
(* holds the characters of a signed integer instead of words.             *)

BLANKS == {" ", "\n"}

\* s.strip(): whitespace off both ends
RECURSIVE strip(_)
strip(s) ==
    IF s = <<>> THEN s
    ELSE IF s[1] \in BLANKS THEN strip(Tail(s))
    ELSE IF s[Len(s)] \in BLANKS THEN strip(SubSeq(s, 1, Len(s) - 1))
    ELSE s

\* s.partition("$T$"): the parts before and after the first marker; without a
\* marker the whole of s and the empty string
partition(s) ==
    LET at == {k \in 1..Len(s) : s[k] = "$T$"}
    IN IF at = {} THEN <<s, <<>>, <<>>>>
       ELSE LET k == CHOOSE m \in at : \A n \in at : m <= n
            IN <<SubSeq(s, 1, k - 1), <<"$T$">>, SubSeq(s, k + 1, Len(s))>>

\* the words of a text, as the tokenizer splits it at blanks
words_of(s) == SelectSeq(s, LAMBDA c : c \notin BLANKS)

DigitValue(c) == CASE c = "0" -> 0 [] c = "1" -> 1 [] c = "2" -> 2

RECURSIVE DigitsValue(_)
DigitsValue(s) ==
    IF s = <<>> THEN 0 ELSE 10 * DigitsValue(SubSeq(s, 1, Len(s) - 1)) + DigitValue(s[Len(s)])

\* int(s) for a stripped string: an optional sign, then digits
int(s) ==
    IF s[1] = "-" THEN 0 - DigitsValue(Tail(s))
    ELSE IF s[1] = "+" THEN DigitsValue(Tail(s))
    ELSE DigitsValue(s)

\* read_record with the tree looked up in the graph mapping
read_record_tree_from_graph(lines, idx2graph, idx2tree, i) ==
    LET parts == partition(lines[i + 1])
        text_left == words_of(strip(parts[1]))
        text_right == words_of(strip(parts[3]))
        aspect == words_of(strip(lines[i + 2]))
        polarity == strip(lines[i + 3])
    IN MakeExample(text_left, aspect, text_right, int(polarity) + 1,
                   idx2graph[i], idx2graph[i])

\* the body of the loop of lines 264-285 for the record that starts at raw
\* line i (0-based)
read_record(lines, idx2graph, idx2tree, i) ==
    LET parts == partition(lines[i + 1])
        text_left == words_of(strip(parts[1]))
        text_right == words_of(strip(parts[3]))
        aspect == words_of(strip(lines[i + 2]))
        polarity == strip(lines[i + 3])
    IN MakeExample(text_left, aspect, text_right, int(polarity) + 1,
                   idx2graph[i], idx2tree[i])

\* __read_data__ from raw line i on: lines[i + 1] or lines[i + 2] past the end
\* of the list raises IndexError, a key missing from a mapping KeyError
RECURSIVE read_from(_, _, _, _, _)
read_from(lines, idx2graph, idx2tree, i, all_data) ==
    IF i >= Len(lines) THEN [status |-> "done", all_data |-> all_data]
    ELSE IF i + 2 >= Len(lines) THEN [status |-> "IndexError", all_data |-> <<>>]
    ELSE IF i \notin DOMAIN idx2graph \/ i \notin DOMAIN idx2tree
         THEN [status |-> "KeyError", all_data |-> <<>>]
    ELSE read_from(lines, idx2graph, idx2tree, i + 3,
                   Append(all_data, read_record(lines, idx2graph, idx2tree, i)))

ReadData ==
    /\ rd.status = "input"
    /\ LET r == read_from(rd.lines, rd.idx2graph, rd.idx2tree, 0, <<>>)
       IN rd' = [rd EXCEPT !.status = r.status, !.all_data = r.all_data]
    /\ UNCHANGED <<data, data0, bi, gens, emb>>

\* the lines a raw file is made of
TextLines == {<<"great", " ", "$T$", " ", "food", "\n">>, <<"$T$", " ", "food", "\n">>}
AspectLines == {<<"pizza", "\n">>}
PolarityLines == {<<"-", "1", "\n">>, <<"0", "\n">>, <<" ", "1", " ", "\n">>}

RawRecords ==
    {<<t, a, p>> : t \in TextLines, a \in AspectLines, p \in PolarityLines}

RECURSIVE Flatten(_)
Flatten(records) == IF records = <<>> THEN <<>> ELSE Head(records) \o Flatten(Tail(records))

\* whole records, then up to two lines of a record that is cut short
RawFiles ==
    {Flatten(records) \o SubSeq(<<<<"$T$", "\n">>, <<"pizza", "\n">>>>, 1, extra) :
        records \in SeqsUpTo(RawRecords, MaxRecords), extra \in 0..2}

\* the key sets of a pickled mapping for a file of n records: the raw line
\* index of every record; those and the record numbers; or the former but
\* the last
KeySets(n) ==
    {{3 * k : k \in 0..(n - 1)},
     {3 * k : k \in 0..(n - 1)} \cup 0..(n - 1),
     {3 * k : k \in 0..(n - 2)}}

InitRead ==
    /\ data = <<>>
    /\ data0 = <<>>
    /\ bi = NoIterator
    /\ gens = NoGens
    /\ emb = NoEmb
    /\ \E lines \in RawFiles :
        \E keys \in KeySets(Len(lines) \div 3) :
            \E side \in [keys -> 1..MaxRaw] :
                rd = [status |-> "input", lines |-> lines,
                      idx2graph |-> [k \in keys |-> Graph(side[k])],
                      idx2tree |-> [k \in keys |-> Tree(side[k])],
                      all_data |-> <<>>]

NextRead == ReadData

SpecRead == InitRead /\ [][NextRead]_vars

\* the number of whole records of the file
NumRecords == Len(rd.lines) \div 3

RecordKeys == {3 * k : k \in 0..(NumRecords - 1)}

\* the label a polarity line stands for
LabelOf(line) ==
    CASE line = <<"-", "1", "\n">> -> -1
      [] line = <<"0", "\n">> -> 0
      [] line = <<" ", "1", " ", "\n">> -> 1

\* C9: for a file of exactly 3n lines and mappings that have the keys
\* 0, 3, ..., 3(n-1), the reader returns n examples in file order; example k
\* has polarity int(line 3k+2) + 1 and the graph and the tree stored under the
\* raw line index 3k.
C9_RecordsByRawLineIndex ==
    (/\ rd.status # "input"
     /\ Len(rd.lines) = 3 * NumRecords
     /\ RecordKeys \subseteq DOMAIN rd.idx2graph
     /\ RecordKeys \subseteq DOMAIN rd.idx2tree) =>
        /\ rd.status = "done"
        /\ Len(rd.all_data) = NumRecords
        /\ \A k \in 0..(NumRecords - 1) :
            /\ rd.all_data[k + 1].polarity = LabelOf(rd.lines[3 * k + 3]) + 1
            /\ rd.all_data[k + 1].dependency_graph = rd.idx2graph[3 * k]
            /\ rd.all_data[k + 1].dependency_tree = rd.idx2tree[3 * k]

\* two records were read, with different labels, from mappings that also have
\* the key 1, under which another matrix is stored than under the key 3
C9_Witness ==
    /\ rd.status = "done"
    /\ Len(rd.all_data) = 2
    /\ rd.all_data[1].polarity # rd.all_data[2].polarity
    /\ 1 \in DOMAIN rd.idx2graph
    /\ rd.idx2graph[1] # rd.idx2graph[3]
    /\ rd.idx2tree[1] # rd.idx2tree[3]

----------------------------------------------------------------------------
(* Properties of a constructed iterator.                                   *)

Built == bi.status = "ok"

\* the positions (into data) of the examples chunk i was cut from
ChunkOf(i) == Slice(bi.sorted, i * bi.batch_size, (i + 1) * bi.batch_size)

\* the number of times v occurs in the list s
Occurrences(s, v) == Cardinality({k \in 1..Len(s) : s[k] = v})

RECURSIVE SumOver(_, _)
SumOver(f, n) == IF n = 0 THEN 0 ELSE f[n] + SumOver(f, n - 1)

\* how often label p occurs in the polarity lists of all batches together
LabelsInBatches(p) ==
    SumOver([b \in 1..Len(bi.batches) |-> Occurrences(bi.batches[b].polarity, p)],
            Len(bi.batches))

LabelsInData(p) == Cardinality({k \in 1..Len(data0) : data0[k].polarity = p})

\* the longest tokenized full-text length among the examples of chunk i
TextMaxLen(i) ==
    MaxOf({Len(data0[ChunkOf(i)[k]].text_indices.input_ids) : k \in 1..Len(ChunkOf(i))})

IsPaddedTo(padded, original, n, fill) ==
    /\ Len(padded) = n
    /\ Len(original) <= n
    /\ \A k \in 1..n : padded[k] = IF k <= Len(original) THEN original[k] ELSE fill

\* C1: a built iterator holds ceil(|D| / b) batches, and the polarity lists of
\* its batches, taken together, hold every label of D as often as D does.
C1_AllExamplesBatched ==
    Built =>
        /\ Len(bi.batches) = CeilDiv(Len(data0), bi.batch_size)
        /\ \A p \in 0..2 : LabelsInBatches(p) = LabelsInData(p)

\* C2: in every batch, for every sort_key, each of the four tokenized fields of
\* every example has input_ids of length max_len, the longest full-text length
\* in the batch: the original ids followed by 0s.
C2_InputIdsPadded ==
    Built =>
        \A b \in 1..Len(bi.batches) : \A f \in FIELDS : \A k \in 1..Len(bi.batches[b][f]) :
            IsPaddedTo(bi.batches[b][f][k].input_ids,
                       data0[ChunkOf(b - 1)[k]][f].input_ids, TextMaxLen(b - 1), 0)

\* C3: in every batch, the value under attention_mask of every tokenized field
\* of every example is the original mask followed by 1s up to max_len.
C3_AttentionMaskPadded ==
    Built =>
        \A b \in 1..Len(bi.batches) : \A f \in FIELDS : \A k \in 1..Len(bi.batches[b][f]) :
            IsPaddedTo(bi.batches[b][f][k].attention_mask,
                       data0[ChunkOf(b - 1)[k]][f].attention_mask, TextMaxLen(b - 1), 1)

IsSquarePaddedTo(padded, original, n) ==
    /\ Len(padded) = n
    /\ \A i \in 1..n :
        /\ Len(padded[i]) = n
        /\ \A j \in 1..n :
            padded[i][j] = IF i <= Len(original) /\ j <= Len(original)
                           THEN original[i][j] ELSE 0

\* C4: in every batch, the graph and tree matrices of every example are the
\* original matrices zero-padded to a square of side max_len, whenever the raw
\* length is at most max_len.
C4_MatricesPadded ==
    Built =>
        \A b \in 1..Len(bi.batches) : \A k \in 1..Len(bi.batches[b].dependency_graph) :
            LET ex == data0[ChunkOf(b - 1)[k]]
            IN Len(ex.dependency_graph) <= TextMaxLen(b - 1) =>
                /\ IsSquarePaddedTo(bi.batches[b].dependency_graph[k],
                                    ex.dependency_graph, TextMaxLen(b - 1))
                /\ IsSquarePaddedTo(bi.batches[b].dependency_tree[k],
                                    ex.dependency_tree, TextMaxLen(b - 1))

\* C5: building (and traversing) an iterator leaves the dataset as it was.
C5_DatasetUnchanged == data = data0

TokenLen(pos) == Len(data0[pos][bi.sort_key].input_ids)

\* C7: with sort=True the list cut into batches is the dataset stably sorted
\* by ascending tokenized length of the sort_key field; with sort=False it is
\* the dataset in its original order.
C7_SortedByTokenLength ==
    Built =>
        \A i, j \in 1..Len(bi.sorted) :
            i < j =>
                IF bi.sort
                THEN /\ TokenLen(bi.sorted[i]) <= TokenLen(bi.sorted[j])
                     /\ TokenLen(bi.sorted[i]) = TokenLen(bi.sorted[j])
                            => bi.sorted[i] < bi.sorted[j]
                ELSE bi.sorted[i] < bi.sorted[j]

----------------------------------------------------------------------------
(* Properties of traversals.                                               *)

\* s holds every element of t exactly once
IsPermutationOf(s, t) ==
    /\ Len(s) = Len(t)
    /\ \A k \in 1..Len(t) : Occurrences(s, t[k]) = 1

\* nothing occurs twice in s, and everything in it is a batch built at
\* construction, with the contents it was built with
YieldsBuiltBatchesOnce(s) ==
    \A k \in 1..Len(s) :
        /\ Occurrences(s, s[k]) = 1
        /\ Occurrences(bi.batches0, s[k]) = 1

\* C6: a traversal that runs to its end before another one begins yields each
\* precomputed batch exactly once, with the contents it was built with; the
\* iterator keeps the same batches; without shuffle the order is the
\* construction order.
C6_SequentialTraversals ==
    /\ IsPermutationOf(bi.batches, bi.batches0)
    /\ bi.batch_len = Len(bi.batches0)
    /\ \A g \in TRAVERSALS :
        ~gens[g].interrupted =>
            /\ YieldsBuiltBatchesOnce(gens[g].yielded)
            /\ gens[g].pc = "done" => IsPermutationOf(gens[g].yielded, bi.batches0)
            /\ ~bi.shuffle =>
                gens[g].yielded = SubSeq(bi.batches0, 1, Len(gens[g].yielded))

\* a second complete, uninterrupted traversal of at least two batches has ended
\* in an order other than the construction order
C6_Witness ==
    \E g \in TRAVERSALS :
        /\ gens[g].pc = "done"
        /\ ~gens[g].interrupted
        /\ Len(gens[g].yielded) >= 2
        /\ gens[g].yielded # bi.batches0
        /\ \E h \in TRAVERSALS \ {g} : gens[h].pc = "done" /\ gens[h].yielded = bi.batches0

\* C10: with shuffle=True, a traversal during which another traversal began
\* still yields each precomputed batch exactly once by the time it ends.  (A
\* traversal interrupted after its last yield has yielded them all already.)
C10_InterruptedTraversal ==
    \A g \in TRAVERSALS :
        (bi.shuffle /\ gens[g].interrupted /\ gens[g].pc = "done") =>
            IsPermutationOf(gens[g].yielded, bi.batches0)

====
